---- MODULE Spec2Model ----
(***************************************************************************)
(* The subprocess-isolated browser-automation harness of                   *)
(* src/reflex_dev_agent.py: the five operations that spawn a child         *)
(* interpreter (playwright_fetch, dictionary_define, playwright_tool,      *)
(* playwright_snapshot_dom, playwright_web_inspect), the semaphore that    *)
(* caps them, the pre-flight health check, the deadline handling and the   *)
(* decoding of the child's output into the returned dictionary; the       *)
(* navigation strategies of the child scripts; and the staged diagnostics  *)
(* of playwright_diagnose.  Three smaller components follow, each with a   *)
(* specification of its own: ReflexWebInspector                            *)
(* (src/reflex_dev_agent_enhanced.py), ComposioDocsRetriever.index_page    *)
(* (src/composio_docs_server_enhanced.py) and FormState                    *)
(* (src/reflex_form_example.py).                                           *)
(*                                                                         *)
(* The parent is one asyncio event loop: the code between two awaits is    *)
(* one step.  The child processes, the deadline timers and the TCP         *)
(* listener are the environment.                                           *)
(*                                                                         *)
(* Python values: a dict is a record, a str built by an f-string is a      *)
(* sequence of tokens (numbers rendered digit by digit), None inside a     *)
(* dict is the string "None"; the JSON text [] decodes to PyList and any   *)
(* other JSON text that is not an object to PyScalar.                      *)
(***************************************************************************)
EXTENDS Integers, Sequences, FiniteSets, TLC

VARIABLES
    sem,        \* _PLAYWRIGHT_SEMAPHORE._value: the free slots
    op,         \* per call: the operation called
    url,        \* per call: its url argument (a sequence of tokens)
    pc,         \* per call: where the coroutine is suspended
    holds,      \* per call: inside "async with _PLAYWRIGHT_SEMAPHORE"
    child,      \* per call: the process it spawned
    spawns,     \* per call: create_subprocess_exec calls that made a process
    portUp,     \* per call: what wait_for_port found
    path,       \* per call: the way the operation ended
    result,     \* per call: the returned dict, or the exception raised
    acquires,   \* per call: acquisitions of the semaphore
    releases,   \* per call: releases of the semaphore
    arg,        \* per call: delay_ms of playwright_fetch, sense_index of
                \* dictionary_define (0 elsewhere)
    exit,       \* per call: what communicate() returned, and how long the
                \* child slept before extracting
    dpc,        \* playwright_diagnose: the stage it is about to run
    durl,       \* playwright_diagnose: its url argument
    stages,     \* playwright_diagnose: the list "stages"
    summary,    \* playwright_diagnose: the dict "summary"
    cmds,       \* playwright_diagnose: the command lines run_stage launched
    insp,       \* ReflexWebInspector: its fields and the coroutines calling it
    coll,       \* ComposioDocsRetriever: its collection and the pages indexed
    form        \* FormState: its fields and the last submission

\* the harness operations
hvars == <<sem, op, url, pc, holds, child, spawns, portUp, path, result,
           acquires, releases, arg, exit>>

\* playwright_diagnose
dvars == <<dpc, durl, stages, summary, cmds>>

\* the components outside src/reflex_dev_agent.py
xvars == <<insp, coll, form>>

vars == <<hvars, dvars, xvars>>

----------------------------------------------------------------------------
(* Bounds of the model *)

\* concurrent calls in flight in the limiter's specification
NumCalls == 3

Calls == 1..NumCalls

\* the one call of the specification that explores every input
OneCall == {1}

----------------------------------------------------------------------------
(* Program constants *)

SemaphoreSlots == 2
FetchTimeout == 30
DefineTimeout == 30
ToolTimeout == 22
SnapshotTimeout == 25
InspectTimeout == 12

Ops == {"playwright_fetch", "dictionary_define", "playwright_tool",
        "playwright_snapshot_dom", "playwright_web_inspect"}

\* the operations that run the pre-flight health check
HealthOps == {"playwright_tool", "playwright_snapshot_dom",
              "playwright_web_inspect"}

\* the operations whose child runs inside "async with _PLAYWRIGHT_SEMAPHORE"
GuardedOps == {"playwright_fetch", "dictionary_define", "playwright_tool",
               "playwright_snapshot_dom"}

Urls == { <<"http://", "localhost:3001", "/">>,
          <<"http://", "127.0.0.1:3001", "/app">>,
          <<"http://", "localhost:3000", "/">>,
          <<"http://", "127.0.0.1:3000", "/?next=", "localhost:3001">>,
          <<"https://", "example.com", "/">> }

ExitCodes == {0, 1}

----------------------------------------------------------------------------
(* Strings *)

Digit(d) ==
    CASE d = 0 -> "0" [] d = 1 -> "1" [] d = 2 -> "2" [] d = 3 -> "3"
      [] d = 4 -> "4" [] d = 5 -> "5" [] d = 6 -> "6" [] d = 7 -> "7"
      [] d = 8 -> "8" [] d = 9 -> "9"

\* str(n) of a natural number, one token per digit
RECURSIVE Digits(_)
Digits(n) == IF n < 10 THEN <<Digit(n)>>
             ELSE Append(Digits(n \div 10), Digit(n % 10))

\* sub in s, for sequences of tokens
Contains(s, sub) ==
    \E i \in 0..(Len(s) - Len(sub)) :
        \A j \in 1..Len(sub) : s[i + j] = sub[j]

----------------------------------------------------------------------------
(* Pre-flight health check *)

\* the port the url names, 0 when it names no monitored port
TargetPort(u) ==
    IF Contains(u, <<"localhost:3001">>) \/ Contains(u, <<"127.0.0.1:3001">>)
    THEN 3001
    ELSE IF Contains(u, <<"localhost:3000">>) \/ Contains(u, <<"127.0.0.1:3000">>)
    THEN 3000
    ELSE 0

NoneValue == [py_none |-> TRUE]

reflex_healthcheck_or_fail_healthy(port, listening) == NoneValue

reflex_healthcheck_or_fail_default_port(port, listening) ==
    IF ~listening
    THEN [status |-> "error",
          phase |-> "reflex_unavailable",
          error |-> <<"Reflex dev server not listening on port ">> \o Digits(3001),
          url |-> <<"http://localhost:">> \o Digits(3001),
          timestamp |-> "time.time()"]
    ELSE NoneValue

reflex_healthcheck_or_fail(port, listening) ==
    IF ~listening
    THEN [status |-> "error",
          phase |-> "reflex_unavailable",
          error |-> <<"Reflex dev server not listening on port ">> \o Digits(port),
          url |-> <<"http://localhost:">> \o Digits(port),
          timestamp |-> "time.time()"]
    ELSE NoneValue

----------------------------------------------------------------------------
(* Dictionaries *)

UpdateReplace(d, e) == e

\* d.update(e)
Update(d, e) ==
    [k \in (DOMAIN d) \cup (DOMAIN e) |-> IF k \in DOMAIN e THEN e[k] ELSE d[k]]

result_schema(u) ==
    [status |-> "pending", url |-> u, title |-> "None", final_url |-> "None",
     timestamp |-> "time.time()", body_text_length |-> "None",
     has_forms |-> "None", form_count |-> "None", has_buttons |-> "None",
     button_count |-> "None", input_count |-> "None", error |-> "None",
     debug_info |-> "None"]

----------------------------------------------------------------------------
(* Navigation inside the child.  A target answers each wait_until strategy *)
(* of page.goto by loading in time ("ok"), by PWTimeout ("timeout") or by  *)
(* another playwright Error ("error"); launch is whether the browser       *)
(* started.  An entry of "attempts" is a str: the strategy and its suffix. *)

StrategyNames == {"networkidle", "domcontentloaded", "load"}

NavOutcomes == {"ok", "timeout", "error"}

Targets == {t \in [launch : BOOLEAN, nav : [StrategyNames -> NavOutcomes]] :
               ~t.launch => \A s \in StrategyNames : t.nav[s] = "ok"}

\* a target that loads at once
OkTarget == [launch |-> TRUE, nav |-> [s \in StrategyNames |-> "ok"]]

\* the wait_until values a child script tries, in the order of its nested
\* try blocks
NavPlan(o) ==
    IF o = "playwright_web_inspect"
    THEN <<"networkidle", "domcontentloaded", "load">>
    ELSE <<"domcontentloaded", "load">>

OkSuffix(o) == IF o = "playwright_web_inspect" THEN "_success" ELSE "_ok"

RECURSIVE NavigateCatchesAll(_, _, _, _, _)
NavigateCatchesAll(o, nav, plan, attempts, tried) ==
    IF plan = <<>>
    THEN [end |-> "timeouts", attempts |-> attempts, tried |-> tried]
    ELSE LET s == Head(plan) IN
         IF nav[s] = "ok"
         THEN [end |-> "ok", attempts |-> Append(attempts, <<s, OkSuffix(o)>>),
               tried |-> Append(tried, s)]
         ELSE NavigateCatchesAll(o, nav, Tail(plan),
                                 Append(attempts, <<s, "_timeout">>),
                                 Append(tried, s))

\* the nested try/except PWTimeout blocks: the first strategy that loads
\* ends the sequence, a timeout goes on to the next strategy, any other
\* Error leaves the blocks; tried holds the wait_until of every page.goto
\* that was called
RECURSIVE Navigate(_, _, _, _, _)
Navigate(o, nav, plan, attempts, tried) ==
    IF plan = <<>>
    THEN [end |-> "timeouts", attempts |-> attempts, tried |-> tried]
    ELSE LET s == Head(plan) IN
         CASE nav[s] = "ok" ->
                 [end |-> "ok", attempts |-> Append(attempts, <<s, OkSuffix(o)>>),
                  tried |-> Append(tried, s)]
           [] nav[s] = "timeout" ->
                 Navigate(o, nav, Tail(plan), Append(attempts, <<s, "_timeout">>),
                          Append(tried, s))
           [] OTHER ->
                 [end |-> "error", attempts |-> attempts,
                  tried |-> Append(tried, s)]

\* dictionary_define's child: after a timeout it calls page.goto(URL,
\* timeout=15000) outside any try, so a second timeout is an Error
DefineNavigate(nav) ==
    CASE nav["domcontentloaded"] = "ok" ->
            [end |-> "ok", attempts |-> << <<"domcontentloaded", "_ok">> >>,
             tried |-> <<"domcontentloaded">>]
      [] nav["domcontentloaded"] = "timeout" ->
            [end |-> IF nav["load"] = "ok" THEN "ok" ELSE "error",
             attempts |-> << <<"domcontentloaded", "_timeout">> >>,
             tried |-> <<"domcontentloaded", "load">>]
      [] OTHER ->
            [end |-> "error", attempts |-> <<>>,
             tried |-> <<"domcontentloaded">>]

\* what the child did before it printed its dict
ChildNavigation(o, t) ==
    IF ~t.launch THEN [end |-> "error", attempts |-> <<>>, tried |-> <<>>]
    ELSE IF o = "dictionary_define" THEN DefineNavigate(t.nav)
    ELSE Navigate(o, t.nav, NavPlan(o), <<>>, <<>>)

----------------------------------------------------------------------------
(* The delay of playwright_fetch *)

Max(a, b) == IF a >= b THEN a ELSE b

Min(a, b) == IF a <= b THEN a ELSE b

\* the cap of the child's sleep, in ms
DelayCap == 5000

\* config["delay_ms"]
config_delay_ms(delay_ms) == Max(0, delay_ms)

child_sleep_ms_uncapped(cfg_delay) == Max(0, cfg_delay)

\* the ms the child sleeps: time.sleep(min(5000, max(0, ...))/1000.0),
\* skipped when cfg.get("delay_ms") is falsy
child_sleep_ms(cfg_delay) ==
    IF cfg_delay # 0 THEN Min(DelayCap, Max(0, cfg_delay)) ELSE 0

----------------------------------------------------------------------------
(* The child's output.  The parent sees the child's exit code, what it     *)
(* wrote to standard output and what it wrote to standard error.  A text   *)
(* whose content never matters is kept as what it was cut from and its     *)
(* length.                                                                 *)

\* the longest standard output and standard error explored
MaxOutLen == 5000
MaxErrLen == 2000

\* the excerpt lengths of the decoding code
FetchExcerpt == 400
DefineStderrExcerpt == 300
DefineRawExcerpt == 400
SnapshotStderrExcerpt == 500
SnapshotRawExcerpt == 1000
InspectStderrExcerpt == 200

OutLens == {1, DefineRawExcerpt, DefineRawExcerpt + 1, SnapshotRawExcerpt + 1,
            MaxOutLen}

ErrLens == {1, SnapshotStderrExcerpt + 1, MaxErrLen}

\* what the child wrote to standard output, by kind: nothing, text that is
\* no JSON (cut short, or not UTF-8), the JSON text [], another JSON text
\* that is no object, the dict its script prints for a target, or a JSON
\* object the script does not print
StdoutClasses ==
    {"empty", "garbage", "nonutf8", "array", "scalar", "object", "foreign"}

\* the child of dictionary_define prints at most this many definitions
DefinitionsCap == 12

\* how many definitions the child collected from the page
DefCounts == {0, 1, 3, DefinitionsCap + 1}

\* the definitions collected from a page that holds n of them
Definitions(n) == [i \in 1..n |-> [definition |-> i]]

Stdouts ==
    {[class |-> "empty", len |-> 0, target |-> OkTarget, defs |-> 0]}
    \cup {[class |-> k, len |-> n, target |-> OkTarget, defs |-> 0] :
             k \in {"garbage", "nonutf8"}, n \in OutLens}
    \cup {[class |-> k, len |-> 2, target |-> OkTarget, defs |-> 0] :
             k \in {"array", "scalar"}}
    \cup {[class |-> "object", len |-> MaxOutLen, target |-> t, defs |-> 0] :
             t \in Targets}
    \cup {[class |-> "object", len |-> MaxOutLen, target |-> OkTarget, defs |-> n] :
             n \in DefCounts}
    \cup {[class |-> "foreign", len |-> MaxOutLen, target |-> OkTarget, defs |-> 0]}

\* what the child wrote to standard error
Stderrs ==
    {[class |-> "empty", len |-> 0]}
    \cup {[class |-> k, len |-> n] : k \in {"text", "nonutf8"}, n \in ErrLens}

\* text[:cap] of a decoded stream
Excerpt(stream, len, cap) == [of |-> stream, len |-> Min(len, cap)]

\* the whole decoded stream
Whole(stream, len) == [of |-> stream, len |-> len]

PyList == [py_list |-> TRUE]

PyScalar == [py_scalar |-> TRUE]

\* the entry the child of playwright_fetch appends after its sleep
DelayEntry(cfg_delay) ==
    IF cfg_delay # 0
    THEN << <<"delay_">> \o Digits(cfg_delay) \o <<"ms">> >>
    ELSE <<>>

\* the dict the child of operation o prints for target t
\* (cfg_delay: config["delay_ms"] of playwright_fetch; count: the
\* definitions the child of dictionary_define collected)
ChildObject(o, u, t, cfg_delay, count) ==
    LET n == ChildNavigation(o, t) IN
    CASE o = "playwright_fetch" /\ n.end = "ok" ->
            [status |-> "success", url |-> u, final_url |-> u, title |-> "title",
             ready_state |-> "complete",
             attempts |-> n.attempts \o DelayEntry(cfg_delay),
             html_preview |-> "html", text_preview |-> "text",
             selectors_extracted |-> "{}", screenshot_base64 |-> "None",
             screenshot_meta |-> "None", elapsed_ms |-> "elapsed"]
      [] o = "playwright_fetch" /\ n.end = "timeouts" ->
            [status |-> "error", phase |-> "navigation",
             attempts |-> n.attempts,
             error |-> <<"navigation timeouts">>]
      [] o = "playwright_fetch" /\ n.end = "error" ->
            [status |-> "error", phase |-> "launch", error |-> <<"str(e)">>,
             attempts |-> n.attempts]
      [] o = "dictionary_define" ->
            [status |-> IF n.end = "ok" THEN "ok" ELSE "error",
             url |-> <<"https://www.merriam-webster.com/dictionary/">> \o u,
             total_definitions |-> IF n.end = "ok" THEN count ELSE 0,
             definitions |-> IF n.end = "ok"
                             THEN SubSeq(Definitions(count), 1,
                                         Min(count, DefinitionsCap))
                             ELSE <<>>,
             elapsed_ms |-> "elapsed", attempts |-> n.attempts]
      [] o = "playwright_tool" /\ n.end = "ok" ->
            [status |-> "ok", title |-> "title", url |-> u,
             ready_state |-> "complete", attempts |-> n.attempts,
             elapsed_ms |-> "elapsed"]
      [] o = "playwright_tool" /\ n.end = "timeouts" ->
            [status |-> "error", phase |-> "nav", error |-> <<"navigation timeouts">>,
             attempts |-> n.attempts,
             elapsed_ms |-> "elapsed"]
      [] o = "playwright_tool" /\ n.end = "error" ->
            [status |-> "error", phase |-> "launch", error |-> <<"str(e)">>,
             attempts |-> n.attempts, elapsed_ms |-> "elapsed"]
      [] o = "playwright_snapshot_dom" /\ n.end = "ok" ->
            [status |-> "success", url |-> u, title |-> "title",
             ready_state |-> "complete", html_preview |-> "html",
             body_text_preview |-> "text", dom_elements |-> "counts",
             screenshot_base64 |-> "png", attempts |-> n.attempts,
             elapsed_ms |-> "elapsed"]
      [] o = "playwright_snapshot_dom" /\ n.end = "timeouts" ->
            [status |-> "error", phase |-> "navigation",
             error |-> <<"All navigation strategies failed">>,
             attempts |-> n.attempts,
             elapsed_ms |-> "elapsed"]
      [] o = "playwright_snapshot_dom" /\ n.end = "error" ->
            [status |-> "error", phase |-> "browser_launch", error |-> <<"str(e)">>,
             attempts |-> n.attempts, elapsed_ms |-> "elapsed"]
      [] o = "playwright_web_inspect" /\ n.end = "ok" ->
            [status |-> "success", url |-> u, title |-> "title", final_url |-> u,
             debug_info |-> Append(n.attempts, <<"ready_state: ", "complete">>)]
      [] o = "playwright_web_inspect" /\ n.end = "timeouts" ->
            [status |-> "error", url |-> u,
             error |-> <<"All navigation strategies timed out">>,
             debug_info |-> n.attempts]
      [] o = "playwright_web_inspect" /\ n.end = "error" ->
            [status |-> "error", url |-> u, phase |-> "browser_launch",
             error |-> <<"str(e)[:200]">>,
             debug_info |-> << <<"playwright_launch_failed">> >>]

\* a JSON object on standard output that no script of the harness prints:
\* it brings its own timestamp and a key no result has
ForeignObject == [timestamp |-> "child", extra |-> "child"]

\* json.loads(stdout.decode()): the value, or the exception it raises
JsonLoads(o, u, out, cfg_delay) ==
    CASE out.class \in {"empty", "garbage", "nonutf8"} ->
            [ok |-> FALSE, value |-> NoneValue]
      [] out.class = "foreign" -> [ok |-> TRUE, value |-> ForeignObject]
      [] out.class = "array" -> [ok |-> TRUE, value |-> PyList]
      [] out.class = "scalar" -> [ok |-> TRUE, value |-> PyScalar]
      [] OTHER -> [ok |-> TRUE,
                   value |-> ChildObject(o, u, out.target, cfg_delay, out.defs)]

----------------------------------------------------------------------------
(* What an operation hands back: a returned value or a raised exception *)

Ret(v) == [raised |-> FALSE, value |-> v]
Exc(name) == [raised |-> TRUE, value |-> [exception |-> name]]

base_url(term) == <<"https://www.merriam-webster.com/dictionary/">> \o term

\* the configured overall timeout of each operation, in seconds
Timeout_s(o) ==
    CASE o = "playwright_fetch" -> FetchTimeout
      [] o = "dictionary_define" -> DefineTimeout
      [] o = "playwright_tool" -> ToolTimeout
      [] o = "playwright_snapshot_dom" -> SnapshotTimeout
      [] o = "playwright_web_inspect" -> InspectTimeout

\* the return of an operation whose health check failed
HealthReturn(o, u, health_error) ==
    IF o = "playwright_web_inspect"
    THEN Ret(Update(result_schema(u), health_error))
    ELSE Ret(health_error)

\* create_subprocess_exec raised
SpawnFailure(o, u) ==
    IF o = "playwright_web_inspect"
    THEN Ret(Update(result_schema(u),
                    [status |-> "error", error |-> <<"str(e)[:200]">>,
                     debug_info |-> "subprocess_creation_failed"]))
    ELSE Exc("OSError")

\* the except asyncio.TimeoutError branch, once its waiting is over
TimeoutReturn(o, u) ==
    CASE o = "playwright_fetch" ->
            Ret([status |-> "error",
                 error |-> <<"timeout after ">> \o Digits(FetchTimeout) \o <<"s">>,
                 url |-> u])
      [] o = "dictionary_define" ->
            Ret([status |-> "error", error |-> <<"timeout">>, term |-> u,
                 url |-> base_url(u)])
      [] o = "playwright_tool" ->
            Ret([status |-> "error",
                 error |-> <<"timeout after ">> \o Digits(ToolTimeout) \o <<"s">>])
      [] o = "playwright_snapshot_dom" ->
            \* "stderr" is read before it was ever assigned
            Exc("UnboundLocalError")
      [] o = "playwright_web_inspect" ->
            Ret(Update(result_schema(u),
                       [status |-> "error",
                        error |-> <<"Inspection timed out after ">>
                                  \o Digits(InspectTimeout) \o <<" seconds">>,
                        debug_info |-> "timeout_killed"]))

\* the value of time.time() when playwright_web_inspect stamps its result
\* after decoding, later than the one its schema was built with
Restamp == "time.time() after decoding"

MergeNoRestamp(schema, subprocess_result) == Update(schema, subprocess_result)

\* result_schema.update(subprocess_result);
\* result_schema['timestamp'] = time.time()
Merge(schema, subprocess_result) ==
    Update(Update(schema, subprocess_result), [timestamp |-> Restamp])

\* d.get(k, default)
Get(d, k, default) == IF k \in DOMAIN d THEN d[k] ELSE default

requested_definition_zero_based(defs, sense_index) ==
    IF 0 <= sense_index /\ sense_index < Len(defs)
    THEN defs[sense_index + 1] ELSE NoneValue

\* idx = sense_index - 1; defs[idx] if 0 <= idx < len(defs) else None
\* (a Python list counts from 0, a sequence from 1; a definition is a
\* record, so is the None returned in its place)
requested_definition(defs, sense_index) ==
    LET idx == sense_index - 1 IN
    IF 0 <= idx /\ idx < Len(defs) THEN defs[idx + 1] ELSE NoneValue

\* the code after communicate() returned (rc, stdout, stderr); a is
\* delay_ms of playwright_fetch and sense_index of dictionary_define
Decode(o, u, a, rc, out, err) ==
    LET j == JsonLoads(o, u, out, config_delay_ms(a)) IN
    CASE o = "playwright_fetch" ->
            IF rc # 0
            THEN Ret([status |-> "error", error |-> <<"child exit ">> \o Digits(rc),
                      stderr |-> Excerpt("stderr", err.len, FetchExcerpt)])
            ELSE IF j.ok THEN Ret(j.value)
            ELSE Ret([status |-> "error", error |-> <<"bad JSON: ", "str(e)">>,
                      raw |-> Excerpt("stdout", out.len, FetchExcerpt)])
      [] o = "dictionary_define" ->
            IF rc # 0 \/ out.class = "empty"
            THEN Ret([status |-> "error", error |-> <<"exit ">> \o Digits(rc),
                      stderr |-> Excerpt("stderr", err.len, DefineStderrExcerpt),
                      term |-> u, url |-> base_url(u)])
            ELSE IF ~j.ok
            THEN Ret([status |-> "error", error |-> <<"bad json: ", "str(e)">>,
                      raw |-> Excerpt("stdout", out.len, DefineRawExcerpt)])
            ELSE IF j.value \in {PyList, PyScalar} THEN Exc("AttributeError")
            ELSE Ret(Update(j.value,
                            [requested_definition_index |-> a,
                             requested_definition |->
                                 requested_definition(
                                     Get(j.value, "definitions", <<>>), a),
                             term |-> u]))
      [] o = "playwright_tool" ->
            IF rc # 0 /\ out.class = "empty"
            THEN Ret([status |-> "error", error |-> <<"child exit ">> \o Digits(rc),
                      stderr |-> Whole("stderr", err.len)])
            ELSE IF j.ok THEN Ret(j.value)
            ELSE Ret([status |-> "error",
                      error |-> <<"bad JSON from child: ", "str(e)">>,
                      raw |-> Whole("stdout", out.len)])
      [] o = "playwright_snapshot_dom" ->
            IF rc # 0 /\ out.class = "empty"
            THEN Ret([status |-> "error", error |-> <<"process exit ">> \o Digits(rc),
                      stderr |-> Excerpt("stderr", err.len, SnapshotStderrExcerpt),
                      url |-> u])
            ELSE IF j.ok THEN Ret(j.value)
            ELSE Ret([status |-> "error",
                      error |-> <<"bad JSON from child: ", "str(e)">>,
                      raw |-> Excerpt("stdout", out.len, SnapshotRawExcerpt),
                      stderr |-> Excerpt("stderr", err.len, SnapshotStderrExcerpt),
                      url |-> u])
      [] o = "playwright_web_inspect" ->
            LET caught == Ret(Update(result_schema(u),
                                     [status |-> "error", error |-> <<"str(e)[:200]">>,
                                      debug_info |-> "subprocess_creation_failed"]))
            IN  IF rc = 0 /\ out.class # "empty"
                THEN IF ~j.ok \/ j.value = PyScalar THEN caught
                     ELSE IF j.value = PyList
                     THEN \* update([]) adds nothing
                          Ret(Merge(result_schema(u), <<>>))
                     ELSE Ret(Merge(result_schema(u), j.value))
                ELSE IF err.class = "nonutf8" THEN caught
                ELSE Ret(Update(result_schema(u),
                                [status |-> "error",
                                 error |-> <<"Process failed (code: ">>
                                           \o Digits(rc) \o <<")">>,
                                 debug_info |->
                                     IF err.class = "empty" THEN "None"
                                     ELSE Excerpt("stderr", err.len,
                                                  InspectStderrExcerpt)]))

----------------------------------------------------------------------------
(* ReflexWebInspector (src/reflex_dev_agent_enhanced.py): one inspector,   *)
(* shared by coroutines of one event loop.  A step is the code between two *)
(* awaits.  The browser process is the environment: it can lose its        *)
(* connection at any time.  cleanup() is called nowhere in the repository  *)
(* and is left out.                                                        *)

\* coroutines that call the inspector concurrently
NumCallers == 2

Callers == 1..NumCallers

\* how often the browser loses its connection
MaxDisconnects == 1

\* __init__: browser None, playwright None, the lock free; no caller yet.
\* did: what a caller's initialize_browser did about the browser
InspInit ==
    [lock |-> 0, playwright |-> FALSE, browser |-> "none",
     pc |-> [i \in Callers |-> "idle"],
     entry |-> [i \in Callers |-> "none"],
     did |-> [i \in Callers |-> "nothing"],
     launches |-> 0, lost |-> 0]

LockIgnored(s) == TRUE

\* asyncio.Lock: acquire() goes through only while nobody holds the lock
LockFree(s) == s.lock = 0

\* "if not self.browser or not self.browser.is_connected()"
NeedsLaunch(s) == s.browser # "connected"

\* the end of "async with self._lock" and the return into the caller:
\* inspect_page goes on to self.browser.new_page() unless browser is None
Leave(s, i, what) ==
    [s EXCEPT !.lock = 0,
              !.did[i] = what,
              !.pc[i] = IF s.entry[i] = "inspect_page" /\ s.browser # "none"
                        THEN "page" ELSE "done"]

\* an exception leaves "async with self._lock" and the caller
Raise(s, i) ==
    [s EXCEPT !.lock = 0, !.did[i] = "raised", !.pc[i] = "raised"]

\* the code of initialize_browser from the browser test to the next await
BrowserTest(s, i) ==
    IF NeedsLaunch(s)
    THEN [s EXCEPT !.pc[i] = "launching"]
    ELSE Leave(s, i, "reused")

\* a coroutine calls initialize_browser or inspect_page and reaches the lock
InspectorCall(i, entry) ==
    /\ insp.pc[i] = "idle"
    /\ insp' = [insp EXCEPT !.pc[i] = "lock", !.entry[i] = entry,
                            !.did[i] = "nothing"]
    /\ UNCHANGED <<hvars, dvars, coll, form>>

\* "async with self._lock" is entered; "if not self.playwright"
LockAcquire(i) ==
    /\ insp.pc[i] = "lock"
    /\ LockFree(insp)
    /\ LET held == [insp EXCEPT !.lock = i] IN
       insp' = IF ~insp.playwright
               THEN [held EXCEPT !.pc[i] = "starting"]
               ELSE BrowserTest(held, i)
    /\ UNCHANGED <<hvars, dvars, coll, form>>

\* await async_playwright().start() returns or raises
PlaywrightStart(i, ok) ==
    /\ insp.pc[i] = "starting"
    /\ insp' = IF ok
               THEN BrowserTest([insp EXCEPT !.playwright = TRUE], i)
               ELSE Raise(insp, i)
    /\ UNCHANGED <<hvars, dvars, coll, form>>

\* a launch that succeeded: self.browser = the new browser
Launched(s, i) ==
    Leave([s EXCEPT !.browser = "connected", !.launches = @ + 1], i, "launched")

\* await self.playwright.chromium.launch(...) returns or raises; after a
\* failure subprocess.run(["playwright", "install"], check=True) runs and
\* returns (installed) or raises
Launch(i, ok, installed) ==
    /\ insp.pc[i] = "launching"
    /\ insp' = IF ok THEN Launched(insp, i)
               ELSE IF installed THEN [insp EXCEPT !.pc[i] = "relaunching"]
               ELSE Raise(insp, i)
    /\ UNCHANGED <<hvars, dvars, coll, form>>

\* the second launch, in the except block, returns or raises
Relaunch(i, ok) ==
    /\ insp.pc[i] = "relaunching"
    /\ insp' = IF ok THEN Launched(insp, i) ELSE Raise(insp, i)
    /\ UNCHANGED <<hvars, dvars, coll, form>>

\* the rest of inspect_page: a new page, the inspection, page.close()
InspectPage(i) ==
    /\ insp.pc[i] = "page"
    /\ insp' = [insp EXCEPT !.pc[i] = "done"]
    /\ UNCHANGED <<hvars, dvars, coll, form>>

\* the caller has its result and may call again
InspectorReturn(i) ==
    /\ insp.pc[i] \in {"done", "raised"}
    /\ insp' = [insp EXCEPT !.pc[i] = "idle", !.entry[i] = "none"]
    /\ UNCHANGED <<hvars, dvars, coll, form>>

\* the browser process dies or closes its pipe: is_connected() turns False
BrowserDisconnects ==
    /\ insp.browser = "connected"
    /\ insp.lost < MaxDisconnects
    /\ insp' = [insp EXCEPT !.browser = "disconnected", !.lost = @ + 1]
    /\ UNCHANGED <<hvars, dvars, coll, form>>

----------------------------------------------------------------------------
(* ComposioDocsRetriever.index_page (src/composio_docs_server_enhanced.py) *)
(* and the Chroma collection it writes.  A text is its name, the number of *)
(* its tokens and the characters each token decodes to; a stored document  *)
(* is a record of its id, its chunk and its metadata.                      *)

\* the pages of the documentation site
NumDocUrls == 2

DocUrls == {[page |-> k] : k \in 1..NumDocUrls}

\* chunk_text(text, chunk_size=500, overlap=50)
ChunkSize == 500
Overlap == 50

\* "if len(chunk.strip()) < 50: continue"
MinChunkChars == 50

\* texts: one whose only chunk is too short to be stored (page data that
\* scrape_page would not return: it gives None below 200 characters), one
\* of a single chunk, one of three chunks
Contents ==
    {[text |-> "short", tokens |-> 10, width |-> 4],
     [text |-> "one", tokens |-> 300, width |-> 4],
     [text |-> "three", tokens |-> 2 * ChunkSize, width |-> 4]}

\* hashlib.md5(x.encode()).hexdigest()
Md5(x) == [md5 |-> x]

\* what scrape_page returns for a page: None, or the dict with the hash of
\* its content
PageData(u, content) ==
    [url |-> u, title |-> "title", content |-> content,
     content_length |-> content.tokens * content.width,
     content_hash |-> Md5(content.text)]

Pages == {PageData(u, content) : u \in DocUrls, content \in Contents}

\* the loop of chunk_text from token i on:
\* for i in range(0, len(tokens), chunk_size - overlap), with its break
RECURSIVE ChunksFrom(_, _)
ChunksFrom(content, i) ==
    IF i >= content.tokens THEN <<>>
    ELSE LET n == Min(ChunkSize, content.tokens - i)
             chunk == [of |-> content.text, start |-> i, tokens |-> n,
                       chars |-> n * content.width]
         IN  IF i + ChunkSize >= content.tokens
             THEN <<chunk>>
             ELSE <<chunk>> \o ChunksFrom(content, i + ChunkSize - Overlap)

chunk_text(content) == ChunksFrom(content, 0)

\* collection.get(where url = u and content_hash = h)
Existing(docs, u, h) == {d \in docs : d.url = u /\ d.content_hash = h}

OldDocsNone(docs, u) == {}

\* collection.get(where url = u)
OldDocs(docs, u) == {d \in docs : d.url = u}

\* collection.add: a document whose id is already stored is not added
Add(docs, new) ==
    docs \cup {d \in new : \A e \in docs : e.id # d.id}

\* index_page(page_data) on a collection holding docs: the collection
\* afterwards
index_page(docs, page_data) ==
    IF page_data = NoneValue THEN docs
    ELSE LET u == page_data.url
             content_hash == page_data.content_hash
             chunks == chunk_text(page_data.content)
             stored == {i \in 1..Len(chunks) : chunks[i].chars >= MinChunkChars}
             new == {[id |-> [of |-> Md5(u), index |-> i - 1],
                      document |-> chunks[i],
                      url |-> u, title |-> page_data.title,
                      chunk_index |-> i - 1,
                      content_hash |-> content_hash,
                      source |-> "composio_docs"] : i \in stored}
         IN  IF Existing(docs, u, content_hash) # {} THEN docs
             ELSE Add(docs \ OldDocs(docs, u), new)

\* an empty collection; last: the content most recently passed for a url,
\* before: the one passed before it, prev: the argument of the latest call
CollInit ==
    [docs |-> {},
     last |-> [u \in DocUrls |-> NoneValue],
     before |-> [u \in DocUrls |-> NoneValue],
     prev |-> NoneValue]

\* index_page is called with what scrape_page returned
IndexPage(page_data) ==
    /\ coll' = [docs |-> index_page(coll.docs, page_data),
                last |-> IF page_data = NoneValue THEN coll.last
                         ELSE [coll.last EXCEPT ![page_data.url] =
                                   page_data.content],
                before |-> IF page_data = NoneValue THEN coll.before
                           ELSE [coll.before EXCEPT ![page_data.url] =
                                     coll.last[page_data.url]],
                prev |-> page_data]
    /\ UNCHANGED <<hvars, dvars, insp, form>>

----------------------------------------------------------------------------
(* FormState (src/reflex_form_example.py).  A str is the sequence of its   *)
(* characters; a dict is a function on its keys; the int stored under      *)
(* "age" is [int |-> n], so that it differs from every str.  The page      *)
(* binds on_submit to handle_submit and on_click to reset_form.            *)

\* "Name must be at least 2 characters"
MinNameLen == 2

\* "Age must be between 1 and 120"
MinAge == 1
MaxAge == 120

\* "Message must be at least 10 characters"
MinMessageLen == 10

EmptyDict == [k \in {} |-> NoneValue]

\* s.strip()
RECURSIVE LStrip(_)
LStrip(s) == IF s # <<>> /\ Head(s) = " " THEN LStrip(Tail(s)) ELSE s

RECURSIVE RStrip(_)
RStrip(s) ==
    IF s # <<>> /\ s[Len(s)] = " " THEN RStrip(SubSeq(s, 1, Len(s) - 1)) ELSE s

Strip(s) == RStrip(LStrip(s))

\* ch in s
HasChar(s, ch) == \E i \in 1..Len(s) : s[i] = ch

DecimalDigits == {"0", "1", "2", "3", "4", "5", "6", "7", "8", "9"}

DigitValue(ch) == CHOOSE d \in 0..9 : Digit(d) = ch

\* the value of a sequence of decimal digits
RECURSIVE Decimal(_)
Decimal(s) ==
    IF s = <<>> THEN 0
    ELSE 10 * Decimal(SubSeq(s, 1, Len(s) - 1)) + DigitValue(s[Len(s)])

\* int(s): surrounding blanks are dropped, one sign may lead, decimal
\* digits must follow and nothing else; otherwise ValueError
ParseInt(s) ==
    LET t == Strip(s)
        signed == t # <<>> /\ Head(t) \in {"+", "-"}
        digits == IF signed THEN Tail(t) ELSE t
    IN  IF digits # <<>> /\ \A i \in 1..Len(digits) : digits[i] \in DecimalDigits
        THEN [ok |-> TRUE,
              value |-> IF signed /\ Head(t) = "-"
                        THEN 0 - Decimal(digits) ELSE Decimal(digits)]
        ELSE [ok |-> FALSE, value |-> 0]

\* the fields of a fresh FormState
FieldsInit ==
    [name |-> <<>>, email |-> <<>>, age |-> <<>>, message |-> <<>>,
     form_data |-> EmptyDict, errors |-> EmptyDict, submitted |-> FALSE]

\* the error message of each field after validate_form, "" when it has none
FieldError(f, k) ==
    CASE k = "name" ->
            IF Strip(f.name) = <<>> THEN "Name is required"
            ELSE IF Len(Strip(f.name)) < MinNameLen
            THEN "Name must be at least 2 characters"
            ELSE ""
      [] k = "email" ->
            IF Strip(f.email) = <<>> THEN "Email is required"
            ELSE IF ~HasChar(f.email, "@") \/ ~HasChar(f.email, ".")
            THEN "Please enter a valid email address"
            ELSE ""
      [] k = "age" ->
            IF Strip(f.age) = <<>> THEN "Age is required"
            ELSE LET age_int == ParseInt(f.age) IN
                 IF ~age_int.ok THEN "Age must be a number"
                 ELSE IF age_int.value < MinAge \/ age_int.value > MaxAge
                 THEN "Age must be between 1 and 120"
                 ELSE ""
      [] k = "message" ->
            IF Strip(f.message) = <<>> THEN "Message is required"
            ELSE IF Len(Strip(f.message)) < MinMessageLen
            THEN "Message must be at least 10 characters"
            ELSE ""

FieldNames == {"name", "email", "age", "message"}

\* validate_form: self.errors afterwards (it returns len(self.errors) == 0)
validate_form(f) ==
    [k \in {n \in FieldNames : FieldError(f, n) # ""} |-> FieldError(f, k)]

handle_submit_keeps_flag(f, form_data) ==
    LET g == [f EXCEPT !.name = Get(form_data, "name", <<>>),
                       !.email = Get(form_data, "email", <<>>),
                       !.age = Get(form_data, "age", <<>>),
                       !.message = Get(form_data, "message", <<>>)]
        errors == validate_form(g)
    IN  IF DOMAIN errors = {}
        THEN [g EXCEPT !.errors = errors,
                       !.form_data = [name |-> g.name, email |-> g.email,
                                      age |-> [int |-> ParseInt(g.age).value],
                                      message |-> g.message,
                                      submitted_at |-> "Just now"],
                       !.submitted = TRUE]
        ELSE [g EXCEPT !.errors = errors]

\* handle_submit(form_data): the fields afterwards
handle_submit(f, form_data) ==
    LET g == [f EXCEPT !.name = Get(form_data, "name", <<>>),
                       !.email = Get(form_data, "email", <<>>),
                       !.age = Get(form_data, "age", <<>>),
                       !.message = Get(form_data, "message", <<>>)]
        errors == validate_form(g)
    IN  IF DOMAIN errors = {}
        THEN [g EXCEPT !.errors = errors,
                       !.form_data = [name |-> g.name, email |-> g.email,
                                      age |-> [int |-> ParseInt(g.age).value],
                                      message |-> g.message,
                                      submitted_at |-> "Just now"],
                       !.submitted = TRUE]
        ELSE [g EXCEPT !.errors = errors, !.submitted = FALSE]

\* reset_form: the fields afterwards
reset_form(f) ==
    [f EXCEPT !.name = <<>>, !.email = <<>>, !.age = <<>>, !.message = <<>>,
              !.form_data = EmptyDict, !.errors = EmptyDict,
              !.submitted = FALSE]

\* what a browser can send for the four inputs of the page
NameInputs == { <<>>, <<" ", "A", " ">>, <<"A", "l">>, <<"B", "o">> }

EmailInputs == { <<>>, <<"a", "@", "b">>, <<"a", "@", "b", ".", "c">> }

AgeInputs == { <<>>, <<"x">>, <<"0">>, <<" ", "2", "5", " ">>, <<"0", "7">>,
               <<"1", "2", "1">>, <<"-", "3">>, <<"2", ".", "5">> }

MessageInputs == { <<>>, <<"s", "h", "o", "r", "t">>,
                   <<"h", "e", "l", "l", "o", " ", "w", "o", "r", "l", "d">> }

\* the form_data of a submit event; the last one lacks the key "age"
Submissions ==
    [name : NameInputs, email : EmailInputs, age : AgeInputs,
     message : MessageInputs]
    \cup {[name |-> <<"A", "l">>, email |-> <<"a", "@", "b", ".", "c">>,
           message |-> <<"h", "e", "l", "l", "o", " ", "w", "o", "r", "l", "d">>]}

\* a fresh FormState; call: the latest event, data: the form_data of the
\* latest handle_submit
FormInit == [fields |-> FieldsInit, call |-> "none", data |-> NoneValue]

\* on_submit: handle_submit(form_data)
HandleSubmit(form_data) ==
    /\ form' = [fields |-> handle_submit(form.fields, form_data),
                call |-> "handle_submit", data |-> form_data]
    /\ UNCHANGED <<hvars, dvars, insp, coll>>

\* on_click of the reset button: reset_form()
ResetForm ==
    /\ form' = [form EXCEPT !.fields = reset_form(form.fields),
                            !.call = "reset_form"]
    /\ UNCHANGED <<hvars, dvars, insp, coll>>

----------------------------------------------------------------------------
(* State *)

Terms == { <<"cogito">> }

Init ==
    /\ sem = SemaphoreSlots
    /\ op = [c \in Calls |-> "none"]
    /\ url = [c \in Calls |-> <<>>]
    /\ pc = [c \in Calls |-> "idle"]
    /\ holds = [c \in Calls |-> FALSE]
    /\ child = [c \in Calls |-> "none"]
    /\ spawns = [c \in Calls |-> 0]
    /\ portUp = [c \in Calls |-> "unchecked"]
    /\ path = [c \in Calls |-> "none"]
    /\ result = [c \in Calls |-> NoneValue]
    /\ acquires = [c \in Calls |-> 0]
    /\ releases = [c \in Calls |-> 0]
    /\ arg = [c \in Calls |-> 0]
    /\ exit = [c \in Calls |-> NoneValue]
    /\ dpc = "idle"
    /\ durl = <<>>
    /\ stages = <<>>
    /\ summary = NoneValue
    /\ cmds = <<>>
    /\ insp = InspInit
    /\ coll = CollInit
    /\ form = FormInit

Finished(c) == pc[c] \in {"done", "raised"}

ReleaseLeak(c) ==
    UNCHANGED <<sem, holds, releases>>

\* __aexit__ of "async with _PLAYWRIGHT_SEMAPHORE": release()
Release(c) ==
    /\ sem' = sem + 1
    /\ holds' = [holds EXCEPT ![c] = FALSE]
    /\ releases' = [releases EXCEPT ![c] = @ + 1]

FinishReleases(c, r, how) ==
    /\ pc' = [pc EXCEPT ![c] = IF r.raised THEN "raised" ELSE "done"]
    /\ result' = [result EXCEPT ![c] = r.value]
    /\ path' = [path EXCEPT ![c] = how]
    /\ Release(c)

\* the operation ends: it returns r.value or raises it, leaving the
\* "async with" block when it is inside one
Finish(c, r, how) ==
    /\ pc' = [pc EXCEPT ![c] = IF r.raised THEN "raised" ELSE "done"]
    /\ result' = [result EXCEPT ![c] = r.value]
    /\ path' = [path EXCEPT ![c] = how]
    /\ IF holds[c] THEN Release(c) ELSE UNCHANGED <<sem, holds, releases>>

\* where an operation goes once the health check is behind it
AfterHealth(o) == IF o \in GuardedOps THEN "acquire" ELSE "spawn"

----------------------------------------------------------------------------
(* Operations *)

\* call d is inside reflex_healthcheck_or_fail: the coroutine has no await
\* and wait_for_port is a plain function that loops over blocking connects
\* and time.sleep(0.15), so the event loop's thread runs nothing else
InHealthCheck(d) == pc[d] \in {"health", "polling"}

\* the thread is busy with another call, so no code of call c can run
Blocked(c) == \E d \in Calls \ {c} : InHealthCheck(d)

\* a caller invokes operation o on u; a is delay_ms of playwright_fetch
\* and sense_index of dictionary_define
Start(c, o, u, a) ==
    /\ pc[c] = "idle"
    /\ ~Blocked(c)
    /\ op' = [op EXCEPT ![c] = o]
    /\ url' = [url EXCEPT ![c] = u]
    /\ arg' = [arg EXCEPT ![c] = a]
    /\ pc' = [pc EXCEPT ![c] = IF o \in HealthOps /\ TargetPort(u) # 0
                               THEN "health" ELSE AfterHealth(o)]
    /\ UNCHANGED <<sem, holds, child, spawns, portUp, path, result,
                   acquires, releases, exit, dvars, xvars>>

\* wait_for_port: a connect attempt raised OSError and the loop sleeps
Poll(c) ==
    /\ pc[c] = "health"
    /\ ~Blocked(c)
    /\ pc' = [pc EXCEPT ![c] = "polling"]
    /\ UNCHANGED <<sem, op, url, holds, child, spawns, portUp, path, result,
                   acquires, releases, arg, exit, dvars, xvars>>

\* the pre-flight check of a monitored port ends; listening is what
\* wait_for_port returns: True when a connect attempt succeeds, False when
\* the loop ran out of time after failed attempts
HealthCheck(c, listening) ==
    /\ InHealthCheck(c)
    /\ ~listening => pc[c] = "polling"
    /\ ~Blocked(c)
    /\ portUp' = [portUp EXCEPT ![c] = IF listening THEN "up" ELSE "down"]
    /\ LET health_error == reflex_healthcheck_or_fail(TargetPort(url[c]), listening)
       IN  IF health_error # NoneValue
           THEN /\ Finish(c, HealthReturn(op[c], url[c], health_error), "health")
                /\ UNCHANGED <<op, url, child, spawns, acquires>>
           ELSE /\ pc' = [pc EXCEPT ![c] = AfterHealth(op[c])]
                /\ UNCHANGED <<sem, op, url, holds, child, spawns, path, result,
                               acquires, releases>>
    /\ UNCHANGED <<arg, exit, dvars, xvars>>

\* __aenter__ of "async with _PLAYWRIGHT_SEMAPHORE": acquire(), which
\* suspends the caller while no slot is free
Acquire(c) ==
    /\ pc[c] = "acquire"
    /\ ~Blocked(c)
    /\ sem > 0
    /\ sem' = sem - 1
    /\ holds' = [holds EXCEPT ![c] = TRUE]
    /\ acquires' = [acquires EXCEPT ![c] = @ + 1]
    /\ pc' = [pc EXCEPT ![c] = "spawn"]
    /\ UNCHANGED <<op, url, child, spawns, portUp, path, result, releases,
                   arg, exit, dvars, xvars>>

\* await asyncio.create_subprocess_exec(...): the process starts, or the
\* call raises
Spawn(c, started) ==
    /\ pc[c] = "spawn"
    /\ ~Blocked(c)
    /\ IF started
       THEN /\ child' = [child EXCEPT ![c] = "running"]
            /\ spawns' = [spawns EXCEPT ![c] = @ + 1]
            /\ pc' = [pc EXCEPT ![c] = "communicate"]
            /\ UNCHANGED <<sem, holds, path, result, releases>>
       ELSE /\ Finish(c, SpawnFailure(op[c], url[c]), "spawn_error")
            /\ UNCHANGED <<child, spawns>>
    /\ UNCHANGED <<op, url, portUp, acquires, arg, exit, dvars, xvars>>

\* the program handed to the child interpreter after "-c": a constant text,
\* except the f-string "script" of playwright_web_inspect, which holds the
\* url wherever the child uses it
ChildProgram(o, u) ==
    CASE o = "playwright_fetch" -> <<"wrapper">>
      [] o = "dictionary_define" -> <<"child_code (dictionary_define)">>
      [] o = "playwright_tool" -> <<"child_code (_run_playwright_child)">>
      [] o = "playwright_snapshot_dom" -> <<"snapshot_code">>
      [] o = "playwright_web_inspect" ->
            <<"... page.goto(\"">> \o u \o <<"\", wait_until=\"networkidle\" ...">>
            \o <<"... \"url\": \"">> \o u \o <<"\", ...">>

\* the arguments that follow the program on the child's command line
ChildArgv(o, u) ==
    CASE o = "playwright_fetch" -> <<u, "json.dumps(config)">>
      [] o = "dictionary_define" -> <<u>>
      [] o = "playwright_tool" -> <<u>>
      [] o = "playwright_snapshot_dom" -> <<u, "str(take_screenshot).lower()">>
      [] o = "playwright_web_inspect" -> <<>>

\* what the parent writes to the child's standard input
ChildStdin(o) ==
    IF o = "playwright_fetch" THEN <<"child_code (playwright_fetch)">> ELSE <<>>

\* the ms the child slept before extracting: only the child of
\* playwright_fetch sleeps, once its navigation has succeeded
ChildSlept(o, out, delay_ms) ==
    IF /\ o = "playwright_fetch"
       /\ out.class = "object"
       /\ ChildNavigation(o, out.target).end = "ok"
    THEN child_sleep_ms(config_delay_ms(delay_ms))
    ELSE 0

\* the wait_until values of the page.goto calls the child made
ChildTried(o, out) ==
    IF out.class = "object" THEN ChildNavigation(o, out.target).tried ELSE <<>>

\* the child exits before the deadline and communicate() returns
Complete(c, rc, out, err) ==
    /\ pc[c] = "communicate"
    /\ ~Blocked(c)
    /\ child[c] = "running"
    /\ child' = [child EXCEPT ![c] = "exited"]
    /\ exit' = [exit EXCEPT ![c] = [rc |-> rc, out |-> out, err |-> err,
                                     slept |-> ChildSlept(op[c], out, arg[c]),
                                     tried |-> ChildTried(op[c], out)]]
    /\ Finish(c, Decode(op[c], url[c], arg[c], rc, out, err), "exit")
    /\ UNCHANGED <<op, url, spawns, portUp, acquires, arg, dvars, xvars>>

\* whether the except asyncio.TimeoutError branch sends the kill signal:
\* proc.kill() does; kill_process_tree(process.pid) without await only
\* builds a coroutine that never runs
SendsKill(o) == o # "playwright_web_inspect"

\* whether that branch then waits for the child's exit
WaitsForExit(o) == o # "playwright_fetch"

\* whether that wait is bounded (asyncio.wait_for(process.wait(), 2.0))
BoundedWait(o) == o = "playwright_web_inspect"

\* asyncio.wait_for(proc.communicate(), timeout) expires
Timeout(c) ==
    /\ pc[c] = "communicate"
    /\ ~Blocked(c)
    /\ child[c] = "running"
    /\ child' = [child EXCEPT ![c] = IF SendsKill(op[c]) THEN "signalled" ELSE @]
    /\ IF WaitsForExit(op[c])
       THEN /\ pc' = [pc EXCEPT ![c] = "wait"]
            /\ path' = [path EXCEPT ![c] = "timeout"]
            /\ UNCHANGED <<sem, holds, result, releases>>
       ELSE Finish(c, TimeoutReturn(op[c], url[c]), "timeout")
    /\ UNCHANGED <<op, url, spawns, portUp, acquires, arg, exit, dvars, xvars>>

\* the killed child is gone
ChildDies(c) ==
    /\ child[c] = "signalled"
    /\ child' = [child EXCEPT ![c] = "dead"]
    /\ UNCHANGED <<sem, op, url, pc, holds, spawns, portUp, path, result,
                   acquires, releases, arg, exit, dvars, xvars>>

\* a child nobody killed ends by itself after the deadline
ChildExits(c) ==
    /\ child[c] = "running"
    /\ pc[c] \in {"wait", "done"}
    /\ child' = [child EXCEPT ![c] = "exited"]
    /\ UNCHANGED <<sem, op, url, pc, holds, spawns, portUp, path, result,
                   acquires, releases, arg, exit, dvars, xvars>>

\* proc.wait() returns: the child has exited
Reaped(c) ==
    /\ pc[c] = "wait"
    /\ ~Blocked(c)
    /\ child[c] \in {"dead", "exited"}
    /\ Finish(c, TimeoutReturn(op[c], url[c]), "timeout")
    /\ UNCHANGED <<op, url, child, spawns, portUp, acquires, arg, exit, dvars, xvars>>

\* asyncio.wait_for(process.wait(), timeout=2.0) expires
GraceExpires(c) ==
    /\ pc[c] = "wait"
    /\ ~Blocked(c)
    /\ BoundedWait(op[c])
    /\ child[c] \notin {"dead", "exited"}
    /\ Finish(c, TimeoutReturn(op[c], url[c]), "timeout")
    /\ UNCHANGED <<op, url, child, spawns, portUp, acquires, arg, exit, dvars, xvars>>

----------------------------------------------------------------------------
(* playwright_diagnose: four stages, each a child interpreter running a    *)
(* short program under its own deadline.                                   *)

PythonStartTimeout == 5
ImportPlaywrightTimeout == 8
LaunchBrowserTimeout == 12
NavigateTimeout == 14

\* the stages in the order of the calls of run_stage
StageNames == <<"python_start", "import_playwright", "launch_browser", "navigate">>

\* the timeout argument of each call of run_stage
StageTimeout(name) ==
    CASE name = "python_start" -> PythonStartTimeout
      [] name = "import_playwright" -> ImportPlaywrightTimeout
      [] name = "launch_browser" -> LaunchBrowserTimeout
      [] name = "navigate" -> NavigateTimeout

\* the code argument of each call of run_stage; nav_code is an f-string
\* holding the url
StageCode(name, u) ==
    CASE name = "python_start" -> <<"import sys, json; print(...)">>
      [] name = "import_playwright" -> <<"import time, json, ...; import playwright; ...">>
      [] name = "launch_browser" -> <<"import json, time; ... p.chromium.launch(...) ...">>
      [] name = "navigate" ->
            <<"import json, time; ... page.goto('">> \o u
            \o <<"', wait_until='domcontentloaded', timeout=8000) ...">>

\* how a stage's child ends: exit code 0, another exit code, the deadline,
\* or create_subprocess_exec raising
StageOutcomes == {"ok", "error", "timeout", "spawn_error"}

\* the dict run_stage appends to "stages"
StageRecord(name, outcome) ==
    CASE outcome = "timeout" ->
            [stage |-> name, status |-> "timeout",
             timeout_s |-> StageTimeout(name), elapsed |-> "elapsed"]
      [] outcome = "spawn_error" ->
            [stage |-> name, status |-> "spawn_error", error |-> "str(e)"]
      [] OTHER ->
            [stage |-> name, status |-> outcome,
             returncode |-> IF outcome = "ok" THEN 0 ELSE 1,
             elapsed |-> "elapsed", stdout |-> "out[:400]", stderr |-> "err[:400]"]

\* what run_stage returns
StageOk(outcome) == outcome = "ok"

\* the stages whose result the caller tests with "if not ok"
CheckedStages == {"import_playwright", "launch_browser"}

\* the stage called after name
NextStage(name) ==
    CASE name = "python_start" -> "import_playwright"
      [] name = "import_playwright" -> "launch_browser"
      [] name = "launch_browser" -> "navigate"
      [] name = "navigate" -> "done"

\* effective_py = PW_PY if os.path.exists(PW_PY) else sys.executable
effective_py(exists) == IF exists THEN "PW_PY" ELSE "sys.executable"

\* cmd = [PW_PY, "-c", code] of run_stage
StageCmd(name, u) == [interp |-> "PW_PY", code |-> StageCode(name, u)]

\* playwright_diagnose is called on u; exists is os.path.exists(PW_PY)
DiagStart(u, exists) ==
    /\ dpc = "idle"
    /\ dpc' = "python_start"
    /\ durl' = u
    /\ stages' = <<>>
    /\ cmds' = <<>>
    /\ summary' = [status |-> "running", url |-> u, PW_PY |-> "PW_PY",
                   PW_PY_exists |-> exists,
                   PLAYWRIGHT_BROWSERS_PATH |-> "PW_ENV.get(...)",
                   timestamp |-> "time.time()"]
    /\ UNCHANGED <<hvars, xvars>>

\* await run_stage(dpc, code, timeout) and the code up to the next await;
\* create_subprocess_exec raises when the interpreter's path does not exist
RunStage(outcome) ==
    /\ dpc \in {"python_start", "import_playwright", "launch_browser", "navigate"}
    /\ ~summary.PW_PY_exists => outcome = "spawn_error"
    /\ cmds' = Append(cmds, StageCmd(dpc, durl))
    /\ stages' = Append(stages, StageRecord(dpc, outcome))
    /\ IF dpc \in CheckedStages /\ ~StageOk(outcome)
       THEN /\ summary' = Update(summary, [status |-> "error", failed_stage |-> dpc,
                                           stages |-> stages'])
            /\ dpc' = "done"
       ELSE /\ dpc' = NextStage(dpc)
            /\ summary' = IF dpc = "navigate"
                          THEN Update(summary, [status |-> "success",
                                                stages |-> stages'])
                          ELSE summary
    /\ UNCHANGED <<durl, hvars, xvars>>

----------------------------------------------------------------------------
(* Specifications *)

\* the arguments an operation is called with
Args(o, U) == IF o = "dictionary_define" THEN Terms ELSE U

\* the largest delay_ms explored
MaxDelay == 50000

\* the delay_ms values explored: negative, zero, below, at and above the cap
Delays == {0 - 250, 0, 250, DelayCap, DelayCap + 1, MaxDelay}

DelayArgs(o, D) == IF o = "playwright_fetch" THEN D ELSE {0}

\* the sense_index values explored: negative, zero, the default 2, the
\* last printed definition and beyond
SenseIndexes == {0 - 1, 0, 1, 2, 3, 4, DefinitionsCap, DefinitionsCap + 1}

\* the numeric argument of a call
NumArgs(o) == IF o = "dictionary_define" THEN SenseIndexes
              ELSE DelayArgs(o, Delays)

\* one call, every input
Next ==
    \E c \in OneCall :
        \/ \E o \in Ops : \E u \in Args(o, Urls) :
              \E a \in NumArgs(o) : Start(c, o, u, a)
        \/ Poll(c)
        \/ \E listening \in BOOLEAN : HealthCheck(c, listening)
        \/ Acquire(c)
        \/ \E started \in BOOLEAN : Spawn(c, started)
        \/ \E rc \in ExitCodes, out \in Stdouts, err \in Stderrs :
              Complete(c, rc, out, err)
        \/ Timeout(c)
        \/ ChildDies(c)
        \/ ChildExits(c)
        \/ Reaped(c)
        \/ GraceExpires(c)

Spec == Init /\ [][Next]_vars

\* the limiter's view: calls whose url names no monitored port (the
\* pre-flight check is skipped) and whose child, when it completes, prints
\* its normal result
ConcUrls == { <<"https://", "example.com", "/">> }

\* the output of a child that printed its normal result and no diagnostics
OkStdout == [class |-> "object", len |-> MaxOutLen, target |-> OkTarget,
             defs |-> 0]

NoStderr == [class |-> "empty", len |-> 0]

\* NumCalls concurrent calls
NextConc ==
    \E c \in Calls :
        \/ \E o \in Ops : \E u \in Args(o, ConcUrls) : Start(c, o, u, 0)
        \/ Acquire(c)
        \/ \E started \in BOOLEAN : Spawn(c, started)
        \/ Complete(c, 0, OkStdout, NoStderr)
        \/ Timeout(c)
        \/ ChildDies(c)
        \/ Reaped(c)
        \/ GraceExpires(c)

SpecConc == Init /\ [][NextConc]_vars

\* concurrent calls in the specification of the pre-flight check
NumPollCalls == 2

PollCalls == 1..NumPollCalls

\* a monitored url and one that is not
PollUrls == { <<"http://", "localhost:3001", "/">>,
              <<"https://", "example.com", "/">> }

\* concurrent calls of the operations that run the pre-flight check
NextPoll ==
    \E c \in PollCalls :
        \/ \E o \in HealthOps : \E u \in PollUrls : Start(c, o, u, 0)
        \/ Poll(c)
        \/ \E listening \in BOOLEAN : HealthCheck(c, listening)
        \/ Acquire(c)
        \/ \E started \in BOOLEAN : Spawn(c, started)
        \/ Complete(c, 0, OkStdout, NoStderr)
        \/ Timeout(c)
        \/ ChildDies(c)
        \/ Reaped(c)
        \/ GraceExpires(c)

SpecPoll == Init /\ [][NextPoll]_vars

\* one call of playwright_diagnose, every outcome of every stage
NextDiag ==
    \/ \E u \in Urls, exists \in BOOLEAN : DiagStart(u, exists)
    \/ \E outcome \in StageOutcomes : RunStage(outcome)

SpecDiag == Init /\ [][NextDiag]_vars

\* coroutines of one event loop calling one ReflexWebInspector
NextInspector ==
    \/ \E i \in Callers :
          \/ \E entry \in {"initialize_browser", "inspect_page"} :
                InspectorCall(i, entry)
          \/ LockAcquire(i)
          \/ \E ok \in BOOLEAN : PlaywrightStart(i, ok)
          \/ \E ok, installed \in BOOLEAN : Launch(i, ok, installed)
          \/ \E ok \in BOOLEAN : Relaunch(i, ok)
          \/ InspectPage(i)
          \/ InspectorReturn(i)
    \/ BrowserDisconnects

SpecInspector == Init /\ [][NextInspector]_vars

\* any sequence of index_page calls
NextIndex ==
    \E page_data \in Pages \cup {NoneValue} : IndexPage(page_data)

SpecIndex == Init /\ [][NextIndex]_vars

\* any sequence of submit and reset events
NextForm ==
    \/ \E form_data \in Submissions : HandleSubmit(form_data)
    \/ ResetForm

SpecForm == Init /\ [][NextForm]_vars

----------------------------------------------------------------------------
(* Claims *)

RunningChildren == {c \in Calls : child[c] = "running"}

HeldSlots == Cardinality({c \in Calls : holds[c]})

\* C1: for any interleaving of concurrent calls of the five operations, at
\* most SemaphoreSlots (2) child processes are running at the same time.
C1_AtMostTwoChildren ==
    Cardinality(RunningChildren) <= SemaphoreSlots

\* C2: every acquisition of the semaphore is followed by exactly one release
\* when the guarded operation ends, however it ends; the held slots are
\* always between 0 and 2, they are the calls inside the guarded block, and
\* all slots are free again once every operation has finished.
C2_ReleasedExactlyOnce ==
    /\ sem \in 0..SemaphoreSlots
    /\ HeldSlots = SemaphoreSlots - sem
    /\ \A c \in Calls :
          /\ acquires[c] <= 1
          /\ releases[c] = IF holds[c] THEN acquires[c] - 1 ELSE acquires[c]
          /\ Finished(c) => ~holds[c] /\ releases[c] = acquires[c]
          /\ Finished(c) /\ op[c] \in GuardedOps => acquires[c] = 1
    /\ (\A c \in Calls : Finished(c)) => sem = SemaphoreSlots

\* C2 witness: three guarded operations have ended, one by a raised spawn
\* failure, one by a timeout that raised and one by a normal result, each
\* after one acquisition and one release.
C2_Witness ==
    \E a, b, d \in Calls :
        /\ path[a] = "spawn_error" /\ pc[a] = "raised"
        /\ path[b] = "timeout" /\ pc[b] = "raised"
        /\ path[d] = "exit" /\ pc[d] = "done" /\ op[d] \in GuardedOps
        /\ \A c \in {a, b, d} : acquires[c] = 1 /\ releases[c] = 1
        /\ sem = SemaphoreSlots

\* C3: when the overall deadline expires, the child is killed: once the
\* operation has ended, its child has been sent the kill signal or is gone.
C3_ChildKilledOnTimeout ==
    \A c \in Calls :
        Finished(c) /\ path[c] = "timeout" =>
            child[c] \in {"signalled", "dead", "exited"}

\* C4: no operation raises when its deadline expires; it returns a result.
C4_TimeoutNeverRaises ==
    \A c \in Calls : path[c] = "timeout" => pc[c] # "raised"

\* C5: when the overall deadline expires, the returned result has
\* status=error and phase=timeout and its error message states the
\* configured timeout value.
C5_TimeoutResult ==
    \A c \in Calls :
        pc[c] = "done" /\ path[c] = "timeout" =>
            /\ result[c].status = "error"
            /\ "phase" \in DOMAIN result[c]
            /\ result[c].phase = "timeout"
            /\ Contains(result[c].error, Digits(Timeout_s(op[c])))

\* C6: after the deadline expired, the wait for the child's exit is bounded:
\* while the operation waits for a child that has not exited, the expiry of
\* that wait is enabled, so the operation never blocks on such a child.
C6_BoundedWaitAfterKill ==
    \A c \in Calls :
        pc[c] = "wait" /\ child[c] \notin {"dead", "exited"} =>
            ENABLED GraceExpires(c)

\* C7: for playwright_tool, playwright_snapshot_dom and
\* playwright_web_inspect, if the url names a monitored port (3000 or 3001)
\* and the health check finds no listener, the operation has returned and
\* no child process was ever spawned.
C7_NoSpawnAfterFailedHealthCheck ==
    \A c \in Calls :
        op[c] \in HealthOps /\ TargetPort(url[c]) # 0 /\ portUp[c] = "down" =>
            /\ pc[c] = "done"
            /\ path[c] = "health"
            /\ spawns[c] = 0
            /\ child[c] = "none"

\* C7 witness: a snapshot of a url on port 3000 whose health check failed.
C7_Witness ==
    \E c \in Calls :
        /\ op[c] = "playwright_snapshot_dom"
        /\ TargetPort(url[c]) = 3000
        /\ portUp[c] = "down"
        /\ pc[c] = "done"

\* the keys of the result each operation documents or builds on success
SchemaKeys(o) ==
    CASE o = "playwright_web_inspect" ->
            {"status", "url", "title", "final_url", "timestamp",
             "body_text_length", "has_forms", "form_count", "has_buttons",
             "button_count", "input_count", "error", "debug_info"}
      [] o = "dictionary_define" ->
            {"status", "url", "total_definitions", "definitions",
             "requested_definition", "elapsed_ms", "attempts"}
      [] o = "playwright_fetch" ->
            {"status", "url", "final_url", "title", "ready_state", "attempts",
             "html_preview", "text_preview", "selectors_extracted",
             "screenshot_base64", "screenshot_meta", "elapsed_ms"}
      [] o = "playwright_tool" ->
            {"status", "title", "url", "ready_state", "attempts", "elapsed_ms"}
      [] o = "playwright_snapshot_dom" ->
            {"status", "url", "title", "ready_state", "html_preview",
             "body_text_preview", "dom_elements", "screenshot_base64",
             "attempts", "elapsed_ms"}

\* C8: the result an operation returns contains every key of the schema of
\* that operation, whichever path produced it.
C8_StableSchema ==
    \A c \in Calls :
        pc[c] = "done" => SchemaKeys(op[c]) \subseteq DOMAIN result[c]

\* C9: playwright_web_inspect ends every call by returning a dictionary
\* that holds all 13 keys of its result_schema.
C9_InspectSchemaComplete ==
    \A c \in Calls :
        op[c] = "playwright_web_inspect" /\ Finished(c) =>
            /\ pc[c] = "done"
            /\ SchemaKeys("playwright_web_inspect") \subseteq DOMAIN result[c]

\* C9 witness: playwright_web_inspect returned after its deadline expired.
C9_Witness ==
    \E c \in Calls :
        /\ op[c] = "playwright_web_inspect"
        /\ pc[c] = "done"
        /\ path[c] = "timeout"
        /\ result[c].debug_info = "timeout_killed"

\* C10: if creating the child process fails, the operation returns a
\* result with status=error instead of raising.
C10_SpawnFailureIsResult ==
    \A c \in Calls :
        path[c] = "spawn_error" =>
            pc[c] = "done" /\ result[c].status = "error"


\* C11: decoding never raises: for every exit code and every standard
\* output of the child (empty, not UTF-8, truncated JSON, JSON that is no
\* object), the operation returns a result that carries a status field.
C11_DecodeNeverRaises ==
    \A c \in Calls :
        path[c] = "exit" =>
            pc[c] = "done" /\ "status" \in DOMAIN result[c]

\* the openings of the messages that report the child's exit code
ProcessExitPrefixes == {"child exit ", "exit ", "process exit ",
                        "Process failed (code: "}

\* r reports the child's exit code
IsProcessExitResult(r) ==
    \/ "phase" \in DOMAIN r /\ r.phase = "process_exit"
    \/ /\ "status" \in DOMAIN r /\ r.status = "error"
       /\ "error" \in DOMAIN r
       /\ Len(r.error) > 0
       /\ r.error[1] \in ProcessExitPrefixes

\* the longest excerpt any decoding branch cuts
LongestExcerpt == SnapshotRawExcerpt

\* C12: a process-exit error result (phase=process_exit, a message with the
\* exit code, a truncated prefix of standard error) is returned exactly
\* when the child exited non-zero with empty standard output; a child that
\* exited non-zero after writing output has that output parsed instead.
C12_ProcessExitExactly ==
    \A c \in Calls :
        path[c] = "exit" =>
            IF exit[c].rc # 0 /\ exit[c].out.class = "empty"
            THEN /\ pc[c] = "done"
                 /\ IsProcessExitResult(result[c])
                 /\ "phase" \in DOMAIN result[c]
                 /\ result[c].phase = "process_exit"
                 /\ Contains(result[c].error, Digits(exit[c].rc))
                 /\ "stderr" \in DOMAIN result[c]
                 /\ result[c].stderr.len <= LongestExcerpt
            ELSE ~IsProcessExitResult(result[c])

\* C13: when the child exits with code 0 and empty standard output, the
\* operation returns status=error with phase=decode.
C13_EmptyOutputIsDecodeError ==
    \A c \in Calls :
        path[c] = "exit" /\ exit[c].rc = 0 /\ exit[c].out.class = "empty" =>
            /\ pc[c] = "done"
            /\ result[c].status = "error"
            /\ "phase" \in DOMAIN result[c]
            /\ result[c].phase = "decode"

\* C14: when the child's standard output is not valid JSON, the operation
\* returns status=error with phase=decode and an excerpt of the raw output
\* no longer than a fixed maximum, however long the output is.
C14_BadJsonExcerptBounded ==
    \A c \in Calls :
        path[c] = "exit" /\ exit[c].out.class \in {"garbage", "nonutf8"} =>
            /\ pc[c] = "done"
            /\ result[c].status = "error"
            /\ "phase" \in DOMAIN result[c]
            /\ result[c].phase = "decode"
            /\ "raw" \in DOMAIN result[c]
            /\ result[c].raw.len <= LongestExcerpt

ChildPrinted(c) ==
    /\ path[c] = "exit"
    /\ exit[c].rc = 0
    /\ exit[c].out.class = "object"
    /\ exit[c].out.target.launch

\* C16: the child tries networkidle, domcontentloaded, load in that order
\* and stops at the first that succeeds: for a target that times out on
\* networkidle and loads on domcontentloaded the result has status=ok and
\* its attempts are exactly networkidle_timeout, domcontentloaded_ok.
C16_NavigationOrder ==
    \A c \in Calls :
        /\ ChildPrinted(c)
        /\ exit[c].out.target.nav["networkidle"] = "timeout"
        /\ exit[c].out.target.nav["domcontentloaded"] = "ok"
        => /\ pc[c] = "done"
           /\ result[c].status = "ok"
           /\ "attempts" \in DOMAIN result[c]
           /\ result[c].attempts = << <<"networkidle", "_timeout">>,
                                      <<"domcontentloaded", "_ok">> >>

\* C17: if every navigation strategy times out, the child's result has
\* status=error and phase=navigation, and its attempts hold one timeout
\* entry for every strategy tried, in the order tried.
C17_AllStrategiesTimeOut ==
    \A c \in Calls :
        /\ ChildPrinted(c)
        /\ \A s \in StrategyNames : exit[c].out.target.nav[s] = "timeout"
        => /\ pc[c] = "done"
           /\ result[c].status = "error"
           /\ "phase" \in DOMAIN result[c]
           /\ result[c].phase = "navigation"
           /\ "attempts" \in DOMAIN result[c]
           /\ result[c].attempts =
                  [i \in 1..Len(NavPlan(op[c])) |-> <<NavPlan(op[c])[i], "_timeout">>]

\* C18: for every delay_ms passed to playwright_fetch, the child sleeps
\* between 0 and 5000 ms before it extracts: a value above 5000 is applied
\* as 5000, a negative value as 0, a value in between as it is.
C18_DelayClamped ==
    \A c \in Calls :
        op[c] = "playwright_fetch" /\ path[c] = "exit" =>
            /\ exit[c].slept \in 0..DelayCap
            /\ ChildPrinted(c) /\ result[c].status = "success" =>
                  /\ arg[c] > DelayCap => exit[c].slept = DelayCap
                  /\ arg[c] < 0 => exit[c].slept = 0
                  /\ arg[c] \in 0..DelayCap => exit[c].slept = arg[c]

\* C18 witness: playwright_fetch was called with the largest delay_ms, its
\* child navigated, slept 5000 ms and printed a success.
C18_Witness ==
    \E c \in Calls :
        /\ op[c] = "playwright_fetch"
        /\ arg[c] = MaxDelay
        /\ ChildPrinted(c)
        /\ result[c].status = "success"
        /\ exit[c].slept = DelayCap

\* C19: playwright_diagnose runs python_start, import_playwright,
\* launch_browser, navigate in that order, each under its own timeout, and
\* stops at the first failing stage: every stage recorded before the last
\* one ended ok.
C19_StopsAtFirstFailure ==
    /\ Len(stages) <= Len(StageNames)
    /\ \A i \in 1..Len(stages) :
          /\ stages[i].stage = StageNames[i]
          /\ stages[i].status = "timeout" =>
                stages[i].timeout_s = StageTimeout(StageNames[i])
    /\ \A i \in 1..(Len(stages) - 1) : stages[i].status = "ok"

\* C20: the program handed to the child interpreter is the same for every
\* url: whatever url a call that spawned a child was given, its program is
\* the one any other url would give, and the url is on the command line or
\* on standard input.
C20_ProgramIndependentOfUrl ==
    \A c \in Calls :
        spawns[c] > 0 =>
            /\ \A u \in Args(op[c], Urls) :
                  ChildProgram(op[c], u) = ChildProgram(op[c], url[c])
            /\ \E i \in 1..Len(ChildArgv(op[c], url[c])) :
                  ChildArgv(op[c], url[c])[i] = url[c]


\* C21: while one operation is in its pre-flight polling loop, other
\* pending operations can make progress: a call that is ready to take a
\* free slot or to create its child can do so.
C21_PollingYields ==
    \A c, d \in Calls :
        c # d /\ pc[c] = "polling" =>
            /\ pc[d] = "acquire" /\ sem > 0 => ENABLED Acquire(d)
            /\ pc[d] = "spawn" => ENABLED Spawn(d, TRUE)


\* C22: dictionary_define on a decoded child result: requested_definition
\* is the definition at 1-based position sense_index of the returned list
\* when 1 <= sense_index <= its length and null otherwise;
\* requested_definition_index echoes sense_index and term echoes the term.
C22_RequestedDefinition ==
    \A c \in Calls :
        /\ op[c] = "dictionary_define"
        /\ path[c] = "exit"
        /\ exit[c].rc = 0
        /\ exit[c].out.class = "object"
        => /\ pc[c] = "done"
           /\ result[c].requested_definition =
                  IF 1 <= arg[c] /\ arg[c] <= Len(result[c].definitions)
                  THEN result[c].definitions[arg[c]]
                  ELSE NoneValue
           /\ result[c].requested_definition_index = arg[c]
           /\ result[c].term = url[c]

\* C22 witness: the page held 13 definitions, 12 were returned, and the
\* call asked for the 12th and got it.
C22_Witness ==
    \E c \in Calls :
        /\ op[c] = "dictionary_define"
        /\ pc[c] = "done"
        /\ path[c] = "exit"
        /\ exit[c].rc = 0
        /\ exit[c].out.class = "object"
        /\ arg[c] = DefinitionsCap
        /\ result[c].total_definitions = DefinitionsCap + 1
        /\ Len(result[c].definitions) = DefinitionsCap
        /\ result[c].requested_definition = [definition |-> DefinitionsCap]


\* C23: every child launch uses the override interpreter PW_PY when that
\* path exists and the default interpreter when it does not; no launch is
\* attempted with an override path that does not exist.
C23_InterpreterFallback ==
    \A i \in 1..Len(cmds) :
        /\ cmds[i].interp = effective_py(summary.PW_PY_exists)
        /\ cmds[i].interp = "PW_PY" => summary.PW_PY_exists

\* C26: playwright_diagnose reports status "success" only when every stage
\* recorded in its stages list has status "ok"; whenever some stage ended in
\* error, timeout or spawn_error the status is "error" and failed_stage
\* names such a stage.
C26_SuccessMeansAllOk ==
    dpc = "done" =>
        LET failed == {i \in 1..Len(stages) : stages[i].status # "ok"}
        IN  /\ summary.status = "success" => failed = {}
            /\ failed # {} =>
                  /\ summary.status = "error"
                  /\ "failed_stage" \in DOMAIN summary
                  /\ \E i \in failed : summary.failed_stage = stages[i].stage

\* C24: playwright_web_inspect, on a child object that parsed: every key of
\* the child object overwrites the schema default, keys that are not in the
\* schema are kept, every schema key stays present, and the timestamp is the
\* one the parent stamps after decoding, never the child's.
C24_MergeIntoSchema ==
    \A c \in Calls :
        /\ op[c] = "playwright_web_inspect" /\ path[c] = "exit"
        /\ exit[c].rc = 0 /\ exit[c].out.class \in {"object", "foreign"}
        => LET sub == JsonLoads(op[c], url[c], exit[c].out,
                                config_delay_ms(arg[c])).value
           IN  /\ pc[c] = "done"
               /\ DOMAIN result[c] = DOMAIN result_schema(url[c]) \cup DOMAIN sub
               /\ \A k \in DOMAIN sub \ {"timestamp"} : result[c][k] = sub[k]
               /\ \A k \in DOMAIN result_schema(url[c]) \ DOMAIN sub :
                      k # "timestamp" => result[c][k] = result_schema(url[c])[k]
               /\ result[c].timestamp = Restamp

\* a child object with its own timestamp and an unknown key was merged
C24_Witness ==
    \E c \in Calls :
        /\ op[c] = "playwright_web_inspect" /\ pc[c] = "done" /\ path[c] = "exit"
        /\ exit[c].rc = 0 /\ exit[c].out.class = "foreign"
        /\ result[c].extra = ForeignObject.extra
        /\ ForeignObject.timestamp # Restamp
        /\ result[c].timestamp = Restamp
        /\ result[c].status = "pending"

\* the child of call c made a page.goto that raised an Error other than a
\* timeout
NavigationRefused(c) ==
    /\ ChildPrinted(c)
    /\ exit[c].tried # <<>>
    /\ exit[c].out.target.nav[exit[c].tried[Len(exit[c].tried)]] = "error"

\* the strategies of call c's child were tried in the order of its plan,
\* each one after the first only once the one before it had timed out
OnlyAfterTimeout(c) ==
    LET tried == exit[c].tried
        plan == NavPlan(op[c])
    IN  /\ Len(tried) <= Len(plan)
        /\ \A i \in 1..Len(tried) : tried[i] = plan[i]
        /\ \A i \in 1..(Len(tried) - 1) :
               exit[c].out.target.nav[tried[i]] = "timeout"

\* C25 as stated: a later strategy is attempted only after the previous one
\* timed out; a navigation error that is no timeout ends the sequence at
\* once, and the result has phase launch or browser_launch.
C25_RefusedIsLaunchPhase ==
    \A c \in Calls :
        /\ ChildPrinted(c) => OnlyAfterTimeout(c)
        /\ NavigationRefused(c) =>
              /\ pc[c] = "done"
              /\ result[c].status = "error"
              /\ "phase" \in DOMAIN result[c]
              /\ result[c].phase \in {"launch", "browser_launch"}

\* C25, amended: as above, but the result has phase launch
\* (playwright_fetch, playwright_tool) or browser_launch
\* (playwright_snapshot_dom, playwright_web_inspect), and no phase at all
\* when the child is dictionary_define's.
C25_RefusedEndsSequence ==
    \A c \in Calls :
        /\ ChildPrinted(c) => OnlyAfterTimeout(c)
        /\ NavigationRefused(c) =>
              /\ pc[c] = "done"
              /\ result[c].status = "error"
              /\ IF op[c] = "dictionary_define"
                 THEN "phase" \notin DOMAIN result[c]
                 ELSE /\ "phase" \in DOMAIN result[c]
                      /\ result[c].phase =
                            IF op[c] \in {"playwright_fetch", "playwright_tool"}
                            THEN "launch" ELSE "browser_launch"

\* playwright_web_inspect's child: networkidle timed out, domcontentloaded
\* was refused, load (which would have loaded) was never tried
C25_Witness ==
    \E c \in Calls :
        /\ op[c] = "playwright_web_inspect" /\ pc[c] = "done"
        /\ NavigationRefused(c)
        /\ exit[c].tried = <<"networkidle", "domcontentloaded">>
        /\ exit[c].out.target.nav["load"] = "ok"
        /\ result[c].phase = "browser_launch"

\* C27: a failed pre-flight health check leaves the limiter untouched: in
\* the step in which an operation ends with a health-check failure the free
\* slots and the holders are the same before and after, and the operation
\* never acquired a slot.
C27_HealthFailureKeepsSlots ==
    [][\A c \in Calls :
          path[c] # "health" /\ path'[c] = "health" =>
              /\ sem' = sem
              /\ holds' = holds
              /\ acquires'[c] = 0 /\ releases'[c] = 0]_vars

\* an operation ended with a health-check failure while another one held a
\* slot
C27_Witness ==
    \E c, d \in Calls :
        /\ c # d
        /\ op[c] \in HealthOps /\ pc[c] = "done" /\ path[c] = "health"
        /\ result[c].phase = "reflex_unavailable"
        /\ holds[d] /\ sem = SemaphoreSlots - 1
        /\ acquires[c] = 0

\* the callers inside a chromium.launch call
Launching == {i \in Callers : insp.pc[i] \in {"launching", "relaunching"}}

\* C28: for any interleaving of initialize_browser / inspect_page calls on
\* one inspector, launches are mutually exclusive (at most one caller is
\* inside a launch, and it holds the lock), no launch happens while the
\* browser is connected, and a browser is launched at most once for each
\* time the connection was lost: a caller that finds a connected browser
\* reuses it.
C28_LaunchOnce ==
    /\ Cardinality(Launching) <= 1
    /\ \A i \in Launching : insp.lock = i /\ insp.browser # "connected"
    /\ insp.launches <= insp.lost + 1
    /\ \A i \in Callers :
          insp.did[i] = "reused" => insp.launches >= 1

\* both callers are through initialize_browser, the browser was launched
\* once, one caller launched it and the other reused it
C28_Witness ==
    /\ insp.launches = 1 /\ insp.lost = 0 /\ insp.browser = "connected"
    /\ \E i, j \in Callers :
          /\ insp.did[i] = "launched" /\ insp.pc[i] = "done"
          /\ insp.did[j] = "reused" /\ insp.pc[j] = "page"

\* C29: after any sequence of index_page calls, all chunks stored for one
\* url carry the content_hash of the content most recently indexed for that
\* url, and calling index_page a second time with the same page data leaves
\* the collection as the first call left it.
C29_OneHashPerUrl ==
    /\ \A d \in coll.docs :
          /\ coll.last[d.url] # NoneValue
          /\ d.content_hash = Md5(coll.last[d.url].text)
    /\ \A page_data \in Pages :
          index_page(index_page(coll.docs, page_data), page_data) =
              index_page(coll.docs, page_data)

\* a url indexed with the three-chunk text and then with the one-chunk
\* text holds the one chunk only
C29_Witness ==
    \E u \in DocUrls :
        /\ coll.before[u] # NoneValue /\ coll.before[u].text = "three"
        /\ coll.last[u] # NoneValue /\ coll.last[u].text = "one"
        /\ Cardinality(OldDocs(coll.docs, u)) = 1
        /\ \A d \in OldDocs(coll.docs, u) : d.content_hash = Md5("one")

\* C30: after any sequence of handle_submit and reset_form calls,
\* submitted is true only if errors is empty and form_data holds the name,
\* the email, the integer age and the message of the most recent
\* handle_submit; a handle_submit whose data fails validation leaves
\* submitted false and errors non-empty; reset_form leaves every field at
\* its initial value.
C30_FormState ==
    LET f == form.fields IN
    /\ f.submitted =>
          /\ DOMAIN f.errors = {}
          /\ form.data # NoneValue
          /\ {"name", "email", "age", "message"} \subseteq DOMAIN f.form_data
          /\ f.form_data.name = Get(form.data, "name", <<>>)
          /\ f.form_data.email = Get(form.data, "email", <<>>)
          /\ f.form_data.message = Get(form.data, "message", <<>>)
          /\ f.form_data.age = [int |-> ParseInt(Get(form.data, "age", <<>>)).value]
          /\ f.form_data.age.int \in MinAge..MaxAge
    /\ form.call = "handle_submit" /\ DOMAIN validate_form(f) # {} =>
          ~f.submitted /\ DOMAIN f.errors # {}
    /\ form.call = "reset_form" =>
          /\ f.name = <<>> /\ f.email = <<>> /\ f.age = <<>> /\ f.message = <<>>
          /\ DOMAIN f.form_data = {} /\ DOMAIN f.errors = {}
          /\ ~f.submitted

\* a submission with a non-numeric age arrived after a valid one: submitted
\* is false, errors names the age, form_data still holds the earlier data
C30_Witness ==
    LET f == form.fields IN
    /\ form.call = "handle_submit"
    /\ Get(form.data, "age", <<>>) = <<"x">>
    /\ ~f.submitted
    /\ "age" \in DOMAIN f.errors
    /\ "age" \in DOMAIN f.form_data /\ f.form_data.age = [int |-> 25]

====
